---- MODULE Spec2Model ----
(***************************************************************************)
(* A model of the settlement and execution core of the arbitrage bot:      *)
(*   merge_max / relayer_execute_merge   (src/src/merge.rs)                *)
(*   TradingExecutor::execute_arbitrage_pair (src/src/trading/executor.rs) *)
(* One behaviour is one merge attempt (SpecMerge), one order-pair attempt   *)
(* (SpecPair), one attempt of either kind (SpecAttempt), the planning step *)
(* of an order-pair attempt over every direction string (SpecPlan), a      *)
(* merge attempt over the relayer for every nonce the relayer can assign   *)
(* (SpecRelay), or one call of encode_merge_calldata (SpecCalldata).       *)
(* Every await of the code is one action; the synchronous code that        *)
(* follows an await belongs to the same action.                            *)
(***************************************************************************)
EXTENDS Integers, Sequences, FiniteSets, TLC

(***************************************************************************)
(* Bounds of the model.                                                    *)
(***************************************************************************)
\* largest on-chain outcome balance that is enumerated
MaxBal == 2

\* number of price steps in 1.0: prices are multiples of 1/Ticks
Ticks == 4

\* largest available size and largest configured max order size
MaxSize == 2

\* largest configured slippage, in price steps
MaxSlip == 1

\* largest value of the integer type the relay nonce is parsed into (u64 in
\* the code): a numeral above it overflows the parse
MaxNonce == 15

\* longest nonce string the relayer answers with
MaxNonceLen == 2

\* longest partition handed to encode_merge_calldata
MaxPartition == 2

\* merge.rs:373  `code.len() < 150`
CODE_LEN_MULTISIG == 150

\* executor.rs:204 `<= dec!(1)`
MIN_NOTIONAL == 1

\* executor.rs:314 `results.len() != 2`
EXPECTED_RESULTS == 2

VARIABLES
    \* ---- one merge attempt (merge.rs) ----
    menv,           \* chain state and configuration the attempt runs against
    mpc,            \* position of merge_max
    b_yes,          \* merge.rs:360 (-1: not read yet)
    b_no,           \* merge.rs:361 (-1: not read yet)
    merge_amount,   \* merge.rs:363 (-1: not computed yet)
    code_len,       \* merge.rs:371 code.len() (-1: not read yet)
    path,           \* "none" | "relayer" | "multisig" : the branch of merge.rs:373
    sig_raw,        \* last byte of sig_bytes as sign_hash produced it (-1: no signature)
    sig_v,          \* last byte of sig_bytes after normalisation (-1: no signature)
    mops,           \* external operations and signings performed, in order
    mfailed,        \* the external operations that returned an error
    nonce,          \* merge.rs:242 the nonce string of the relay payload, sent in the body (271)
    signed_nonce,   \* merge.rs:215 the nonce written into the struct hash (-1: no hash yet)
    response,       \* merge.rs:295-307 the response to POST /submit
    mstages,        \* stages of the attempt entered so far, in order
    receipt,        \* "none" | "success" | "reverted" : status inside the receipt obtained
    mresult,        \* what merge_max returned
    \* ---- one order-pair attempt (executor.rs) ----
    penv,           \* the opportunity, the directions and the executor's configuration
    ppc,            \* position of execute_arbitrage_pair
    order_size,     \* executor.rs:168 (-1: not computed yet)
    yes_slippage_apply,         \* executor.rs:177 (-1: not computed yet)
    no_slippage_apply,          \* executor.rs:178 (-1: not computed yet)
    yes_price_with_slippage,    \* executor.rs:179 (-1: not computed yet)
    no_price_with_slippage,     \* executor.rs:180 (-1: not computed yet)
    yes_order,      \* executor.rs:219 the YES branch of the build join
    no_order,       \* executor.rs:219 the NO branch of the build join
    signed_yes,     \* executor.rs:262 "pending" | "signed" | "failed"
    signed_no,      \* executor.rs:262 "pending" | "signed" | "failed"
    orders_to_send, \* executor.rs:276 the batch handed to post_orders
    results,        \* executor.rs:281 the results post_orders returned
    pops,           \* calls made to the venue client, in order
    presult,        \* what execute_arbitrage_pair returned
    \* ---- one call of encode_merge_calldata (merge.rs) ----
    req,            \* merge.rs:113 the MergePositionsRequest
    out             \* merge.rs:115 the bytes produced (empty: not called yet)

\* the variables of relayer_execute_merge
rvars == <<nonce, signed_nonce, response>>

mvars == <<menv, mpc, b_yes, b_no, merge_amount, code_len, path, sig_raw, sig_v, mops, mfailed, rvars,
           mstages, receipt, mresult>>

pvars == <<penv, ppc, order_size, yes_slippage_apply, no_slippage_apply, yes_price_with_slippage,
           no_price_with_slippage, yes_order, no_order, signed_yes, signed_no, orders_to_send, results,
           pops, presult>>

cvars == <<req, out>>

vars == <<mvars, pvars, cvars>>

(***************************************************************************)
(* Small helpers.                                                          *)
(***************************************************************************)
SeqToSet(s) == {s[i] : i \in 1..Len(s)}

Count(s, x) == Cardinality({i \in 1..Len(s) : s[i] = x})

\* position of the first x in s, 0 when absent
IndexOf(s, x) ==
    IF x \in SeqToSet(s) THEN CHOOSE i \in 1..Len(s) : s[i] = x /\ \A j \in 1..(i-1) : s[j] # x
    ELSE 0

(***************************************************************************)
(* merge.rs : environment of one attempt                                   *)
(***************************************************************************)
Wallets == {"eoa1", "eoa2"}

Proxies == {"proxy1", "proxy2"}

\* merge.rs:129-138 derive_proxy_wallet: a fixed injective hash of the owner
derive_proxy_wallet(eoa) == IF eoa = "eoa1" THEN "proxy1" ELSE "proxy2"

\* bytecode lengths on both sides of the threshold of merge.rs:373
CodeLens == {0, CODE_LEN_MULTISIG - 1, CODE_LEN_MULTISIG, CODE_LEN_MULTISIG + 1}

\* the `nonce` field of the /relay-payload response: absent, a JSON string,
\* a JSON number that is a u64, or any other JSON value
JAbsent == [kind |-> "absent", s |-> << >>, n |-> 0]

JStr(s) == [kind |-> "string", s |-> s, n |-> 0]

JNum(n) == [kind |-> "number", s |-> << >>, n |-> n]

JOther == [kind |-> "other", s |-> << >>, n |-> 0]

\* the characters nonce strings are made of
NonceChars == {"0", "1", "9", "+", "-", "a"}

\* all strings over NonceChars of length 0..len
RECURSIVE StringsUpTo(_)
StringsUpTo(len) ==
    IF len = 0 THEN { << >> }
    ELSE LET shorter == StringsUpTo(len - 1)
         IN  shorter \cup { Append(s, c) : s \in shorter, c \in NonceChars }

WideNonces ==
    {JAbsent, JOther} \cup {JNum(n) : n \in {0, 1, MaxNonce}} \cup {JStr(s) : s \in StringsUpTo(MaxNonceLen)}

\* one numeral and one string that is no numeral
NarrowNonces == {JNum(1), JStr(<<"a">>)}

\* the response to POST /submit before the request was answered
NoResponse ==
    [got |-> FALSE, status_ok |-> FALSE, json |-> FALSE, transactionHash |-> "absent",
     transaction_hash |-> "absent"]

\* values of the MERGE_TRY_ANYWAY environment variable
TryAnywayValues == {"unset", "1", "true", "0"}

\* values of an optional credential
Credentials == {"unset", "set"}

\* POLY_BUILDER_SECRET: absent, present but not base64, present and base64
Secrets == {"unset", "notbase64", "base64"}

MergeEnvs ==
    [ yes         : 0..MaxBal,
      no          : 0..MaxBal,
      codeLen     : CodeLens,
      wallet      : Wallets,
      proxy       : Proxies,
      tryAnyway   : TryAnywayValues,
      key         : Credentials,
      secret      : Secrets,
      passphrase  : Credentials,
      \* the nonce fields the relayer may answer this attempt with
      relayNonces : {NarrowNonces} ]

\* cause: the message of the underlying error that the returned error quotes;
\* hint: the returned error ends with the not-a-Safe hint of merge.rs:406
NoResult == [kind |-> "none", err |-> "", tx |-> "", cause |-> << >>, hint |-> FALSE]

Ok(tx) == [kind |-> "ok", err |-> "", tx |-> tx, cause |-> << >>, hint |-> FALSE]

Err(e) == [kind |-> "err", err |-> e, tx |-> "", cause |-> << >>, hint |-> FALSE]

\* encode_merge_calldata is not being called
NoRequest ==
    [given |-> FALSE, collateral_token |-> << >>, parent_collection_id |-> << >>, condition_id |-> << >>,
     partition |-> << >>, amount |-> 0]

CalldataIdle ==
    /\ req = NoRequest
    /\ out = << >>

\* no order-pair attempt is running
PairIdle ==
    /\ penv = [idle |-> TRUE]
    /\ ppc = "idle"
    /\ order_size = -1
    /\ yes_slippage_apply = -1
    /\ no_slippage_apply = -1
    /\ yes_price_with_slippage = -1
    /\ no_price_with_slippage = -1
    /\ yes_order = [st |-> "pending"]
    /\ no_order = [st |-> "pending"]
    /\ signed_yes = "pending"
    /\ signed_no = "pending"
    /\ orders_to_send = << >>
    /\ results = << >>
    /\ pops = << >>
    /\ presult = [kind |-> "none", err |-> ""]

InitMerge ==
    /\ PairIdle
    /\ CalldataIdle
    /\ menv \in MergeEnvs
    /\ mpc = "setup"
    /\ b_yes = -1
    /\ b_no = -1
    /\ merge_amount = -1
    /\ code_len = -1
    /\ path = "none"
    /\ sig_raw = -1
    /\ sig_v = -1
    /\ mops = << >>
    /\ mfailed = {}
    /\ nonce = << >>
    /\ signed_nonce = -1
    /\ response = NoResponse
    /\ mstages = <<"Start">>
    /\ receipt = "none"
    /\ mresult = NoResult

\* the operations that have failed, after `op` returned ok or an error
FailedAfter(ok, op) == IF ok THEN mfailed ELSE mfailed \cup {op}

\* `?` / bail!: the attempt ends with an error
MergeFail(e) ==
    /\ mpc' = "done"
    /\ mresult' = Err(e)

(***************************************************************************)
(* merge.rs:338-358 signer, providers, collection ids, position ids        *)
(***************************************************************************)
MergeSetup ==
    /\ mpc = "setup"
    /\ \E ok \in BOOLEAN :
         IF ok
         THEN /\ mpc' = "balance_yes"
              /\ UNCHANGED <<mresult, mstages>>
         ELSE /\ MergeFail("SetupFailed")
              /\ mstages' = Append(mstages, "Failed")
    /\ UNCHANGED <<cvars, pvars, rvars, menv, b_yes, b_no, merge_amount, code_len, path, sig_raw, sig_v, mops, mfailed, receipt>>

\* mutant: a failed read counts as the largest balance
BalanceOrZero_max(ok, onchain) == IF ok THEN onchain ELSE MaxBal

\* merge.rs:360-361 `.call().await.unwrap_or(U256::ZERO)`
BalanceOrZero(ok, onchain) == IF ok THEN onchain ELSE 0

ReadBalanceYes ==
    /\ mpc = "balance_yes"
    /\ \E ok \in BOOLEAN :
         /\ b_yes' = BalanceOrZero(ok, menv.yes)
         /\ mfailed' = FailedAfter(ok, "balanceOf_yes")
    /\ mops' = Append(mops, "balanceOf_yes")
    /\ mpc' = "balance_no"
    /\ UNCHANGED <<cvars, pvars, rvars, menv, b_no, merge_amount, code_len, path, sig_raw, sig_v, mstages, receipt, mresult>>

ReadBalanceNo ==
    /\ mpc = "balance_no"
    /\ \E ok \in BOOLEAN :
         /\ b_no' = BalanceOrZero(ok, menv.no)
         /\ mfailed' = FailedAfter(ok, "balanceOf_no")
    /\ mops' = Append(mops, "balanceOf_no")
    /\ mstages' = Append(mstages, "BalancesRead")
    /\ mpc' = "amount"
    /\ UNCHANGED <<cvars, pvars, rvars, menv, b_yes, merge_amount, code_len, path, sig_raw, sig_v, receipt, mresult>>

\* mutant: the larger balance is taken
MergeAmountOf_max(y, n) == IF y <= n THEN n ELSE y

\* merge.rs:363 b_yes.min(b_no)
MergeAmountOf(y, n) == IF y <= n THEN y ELSE n

\* merge.rs:364 `merge_amount == U256::ZERO`
NothingToMerge(amount) == amount = 0

\* merge.rs:363-370 amount, zero check, calldata
ComputeAmount ==
    /\ mpc = "amount"
    /\ merge_amount' = MergeAmountOf(b_yes, b_no)
    /\ IF NothingToMerge(merge_amount')
       THEN /\ MergeFail("NothingToMerge")
            /\ mstages' = mstages \o <<"AmountComputed", "Failed">>
       ELSE /\ mpc' = "get_code"
            /\ mstages' = Append(mstages, "AmountComputed")
            /\ UNCHANGED mresult
    /\ UNCHANGED <<cvars, pvars, rvars, menv, b_yes, b_no, code_len, path, sig_raw, sig_v, mops, mfailed, receipt>>

\* mutant: a failed read counts as the bytecode of a Safe
CodeOrEmpty_asSafe(ok, len) == IF ok THEN len ELSE CODE_LEN_MULTISIG

\* merge.rs:371 `get_code_at(proxy).await.unwrap_or_default()`
CodeOrEmpty(ok, len) == IF ok THEN len ELSE 0

\* mutant: the comparison with the threshold is not strict
IsForwardingProxy_le(len) == len <= CODE_LEN_MULTISIG

\* merge.rs:373 `code.len() < 150`
IsForwardingProxy(len) == len < CODE_LEN_MULTISIG

\* merge.rs:375 MERGE_TRY_ANYWAY is "1" or "true"
TryAnyway(v) == v \in {"1", "true"}

\* mutant: the override is not consulted
ProxyMismatchFatal_noOverride(derived, proxy, try_anyway) == derived # proxy

\* merge.rs:376-377 bail unless the override is set
ProxyMismatchFatal(derived, proxy, try_anyway) == derived # proxy /\ ~try_anyway

\* mutant: one credential is enough
CredentialsPresent_any(k, s, p) == k # "unset" \/ s # "unset" \/ p # "unset"

\* merge.rs:390-391 (Some(k), Some(s), Some(p))
CredentialsPresent(k, s, p) == k # "unset" /\ s # "unset" /\ p # "unset"

\* merge.rs:371-402 bytecode read, path selection, and the synchronous checks
\* of the forwarding-proxy branch up to the call of relayer_execute_merge
GetCodeAndSelect ==
    /\ mpc = "get_code"
    /\ mops' = Append(mops, "get_code")
    /\ \E ok \in BOOLEAN :
         /\ code_len' = CodeOrEmpty(ok, menv.codeLen)
         /\ mfailed' = FailedAfter(ok, "get_code")
    /\ IF IsForwardingProxy(code_len')
       THEN /\ path' = "relayer"
            /\ IF ProxyMismatchFatal(derive_proxy_wallet(menv.wallet), menv.proxy,
                                     TryAnyway(menv.tryAnyway))
               THEN /\ MergeFail("ProxyKindMismatch")
                    /\ mstages' = mstages \o <<"PathSelected", "Failed">>
               ELSE IF CredentialsPresent(menv.key, menv.secret, menv.passphrase)
               THEN /\ mpc' = "relay_payload"
                    /\ mstages' = Append(mstages, "PathSelected")
                    /\ UNCHANGED mresult
               ELSE /\ MergeFail("MissingRelayerCredentials")
                    /\ mstages' = mstages \o <<"PathSelected", "Failed">>
       ELSE /\ path' = "multisig"
            /\ mpc' = "safe_nonce"
            /\ mstages' = Append(mstages, "PathSelected")
            /\ UNCHANGED mresult
    /\ UNCHANGED <<cvars, pvars, rvars, menv, b_yes, b_no, merge_amount, sig_raw, sig_v, receipt>>

(***************************************************************************)
(* merge.rs:228-318 relayer_execute_merge                                  *)
(***************************************************************************)
\* recovery bytes a signer can put last in the 65-byte signature
RecoveryBytes == {0, 1, 27, 28}

\* mutant: only a recovery byte of 0 is raised
NormalizeV_onlyZero(v) == IF v = 0 THEN v + 27 ELSE v

\* merge.rs:257-259 `if v == 0 || v == 1 { sig_bytes[64] = v + 27 }`
NormalizeV(v) == IF v = 0 \/ v = 1 THEN v + 27 ELSE v

\* merge.rs:286-292 the secret decodes as base64
SecretDecodes(secret) == secret = "base64"

\* the decimal digits, in order
Digits == <<"0", "1", "2", "3", "4", "5", "6", "7", "8", "9">>

IsDigit(c) == \E d \in 1..10 : Digits[d] = c

DigitValue(c) == (CHOOSE d \in 1..10 : Digits[d] = c) - 1

\* u64::to_string: the decimal digits of n, most significant first
RECURSIVE u64_to_string(_)
u64_to_string(n) == IF n < 10 THEN <<Digits[n + 1]>> ELSE Append(u64_to_string(n \div 10), Digits[(n % 10) + 1])

\* merge.rs:173-181 the nonce string get_relay_payload returns: the string
\* itself, the digits of a u64 number, "0" for anything else or no field
NonceString(field) ==
    IF field.kind = "string" THEN field.s
    ELSE IF field.kind = "number" THEN u64_to_string(field.n)
    ELSE <<"0">>

\* <u64 as FromStr>: the digits are folded from the left with checked
\* arithmetic; the result is -1 for an error (empty, invalid digit, overflow)
RECURSIVE ParseDigits(_, _, _)
ParseDigits(s, i, acc) ==
    IF i > Len(s) THEN acc
    ELSE IF ~IsDigit(s[i]) THEN -1
    ELSE LET next == acc * 10 + DigitValue(s[i])
         IN  IF next > MaxNonce THEN -1 ELSE ParseDigits(s, i + 1, next)

\* <u64 as FromStr>: one leading "+" is accepted, at least one digit is required
ParseU64(s) ==
    IF s = << >> THEN -1
    ELSE IF s[1] = "+" THEN (IF Len(s) = 1 THEN -1 ELSE ParseDigits(s, 2, 0))
    ELSE ParseDigits(s, 1, 0)

\* mutant: the hash is given the nonce only when the string is a single digit
HashNonce_oneDigit(s) == IF Len(s) = 1 /\ ParseU64(s) # -1 THEN ParseU64(s) ELSE 0

\* merge.rs:215 `nonce.parse().unwrap_or(0)`
HashNonce(s) == IF ParseU64(s) = -1 THEN 0 ELSE ParseU64(s)

\* mutant: a failed relay-payload request falls back to the Safe path
GetRelayPayload_fallback ==
    /\ mpc = "relay_payload"
    /\ mops' = Append(mops, "GET /relay-payload")
    /\ \E ok \in BOOLEAN :
         /\ mpc' = IF ok THEN "relayer_sign" ELSE "safe_nonce"
         /\ mfailed' = FailedAfter(ok, "GET /relay-payload")
         /\ IF ok THEN \E f \in menv.relayNonces : nonce' = NonceString(f) ELSE UNCHANGED nonce
    /\ UNCHANGED <<cvars, pvars, signed_nonce, response, menv, b_yes, b_no, merge_amount, code_len, path, sig_raw, sig_v, receipt, mresult, mstages>>

\* mutant: a failed relay-payload request is made a second time
GetRelayPayload_retry ==
    /\ mpc = "relay_payload"
    /\ mops' = Append(mops, "GET /relay-payload")
    /\ \E ok \in BOOLEAN :
         /\ mfailed' = FailedAfter(ok, "GET /relay-payload")
         /\ IF ok
            THEN /\ mpc' = "relayer_sign"
                 /\ \E f \in menv.relayNonces : nonce' = NonceString(f)
                 /\ UNCHANGED <<mresult, mstages>>
            ELSE IF Count(mops, "GET /relay-payload") = 0
            THEN UNCHANGED <<mpc, mresult, mstages, nonce>>
            ELSE /\ MergeFail("RelayPayloadFailed")
                 /\ mstages' = Append(mstages, "Failed")
                 /\ UNCHANGED nonce
    /\ UNCHANGED <<cvars, pvars, signed_nonce, response, menv, b_yes, b_no, merge_amount, code_len, path, sig_raw, sig_v, receipt>>

\* merge.rs:242 get_relay_payload (159-184): GET /relay-payload
GetRelayPayload ==
    /\ mpc = "relay_payload"
    /\ mops' = Append(mops, "GET /relay-payload")
    /\ \E ok \in BOOLEAN :
         /\ mfailed' = FailedAfter(ok, "GET /relay-payload")
         /\ IF ok
            THEN /\ mpc' = "relayer_sign"
                 /\ \E f \in menv.relayNonces : nonce' = NonceString(f)
                 /\ UNCHANGED <<mresult, mstages>>
            ELSE /\ MergeFail("RelayPayloadFailed")
                 /\ mstages' = Append(mstages, "Failed")
                 /\ UNCHANGED nonce
    /\ UNCHANGED <<cvars, pvars, signed_nonce, response, menv, b_yes, b_no, merge_amount, code_len, path, sig_raw, sig_v, receipt>>

\* merge.rs:243-293 struct hash, sign_hash, recovery byte, body, secret decode
RelayerSign ==
    /\ mpc = "relayer_sign"
    /\ signed_nonce' = HashNonce(nonce)
    /\ \E ok \in BOOLEAN, v \in RecoveryBytes :
         IF ~ok
         THEN /\ MergeFail("SignFailed")
              /\ mstages' = Append(mstages, "Failed")
              /\ UNCHANGED <<sig_raw, sig_v, mops, mfailed>>
         ELSE /\ sig_raw' = v
              /\ sig_v' = NormalizeV(sig_raw')
              /\ mops' = Append(mops, "sign_hash")
              /\ UNCHANGED mfailed
              /\ IF SecretDecodes(menv.secret)
                 THEN /\ mpc' = "submit"
                      /\ mstages' = Append(mstages, "Signed")
                      /\ UNCHANGED mresult
                 ELSE /\ MergeFail("SecretDecodeFailed")
                      /\ mstages' = mstages \o <<"Signed", "Failed">>
    /\ UNCHANGED <<cvars, pvars, nonce, response, menv, b_yes, b_no, merge_amount, code_len, path, receipt>>

\* how a JSON field of the /submit response can look
FieldKinds == {"absent", "string", "other"}

\* the responses POST /submit can produce
SubmitResponses ==
    [ got : {TRUE}, status_ok : BOOLEAN, json : BOOLEAN, transactionHash : FieldKinds,
      transaction_hash : FieldKinds ]

\* merge.rs:312-317 transactionHash, or transaction_hash when it is absent;
\* the field found must be a string, else the raw body is returned
HashOf(resp) ==
    LET found == IF resp.transactionHash # "absent" THEN <<"transactionHash", resp.transactionHash>>
                 ELSE IF resp.transaction_hash # "absent" THEN <<"transaction_hash", resp.transaction_hash>>
                 ELSE <<"", "absent">>
    IN  IF found[2] = "string" THEN found[1] ELSE "body"

\* merge.rs:306-317 what relayer_execute_merge returns for a response
SubmitResult(resp) ==
    IF ~resp.status_ok THEN Err("RelayerStatus")
    ELSE IF ~resp.json THEN Err("RelayerJson")
    ELSE Ok(HashOf(resp))

\* merge.rs:295-317 and 392-394 POST /submit
PostSubmit ==
    /\ mpc = "submit"
    /\ mops' = Append(mops, "POST /submit")
    /\ mpc' = "done"
    /\ \/ /\ mresult' = Err("SubmitFailed")
          /\ mstages' = Append(mstages, "Failed")
          /\ mfailed' = FailedAfter(FALSE, "POST /submit")
          /\ UNCHANGED response
       \/ /\ response' \in SubmitResponses
          /\ mresult' = SubmitResult(response')
          /\ mfailed' = FailedAfter(mresult'.kind = "ok", "POST /submit")
          /\ mstages' = mstages \o <<"Submitted", IF mresult'.kind = "ok" THEN "Confirmed" ELSE "Failed">>
    /\ UNCHANGED <<cvars, pvars, nonce, signed_nonce, menv, b_yes, b_no, merge_amount, code_len, path, sig_raw, sig_v, receipt>>

(***************************************************************************)
(* merge.rs:402-429 Gnosis Safe path                                       *)
(***************************************************************************)
\* messages of a failed contract read, as sequences of words
ReadErrorMessages == { <<"execution", "reverted">>, <<"revert">>, <<"connection", "refused">> }

\* str::contains for a word of a message
WordContains(word, needle) == word = needle \/ (needle = "revert" /\ word = "reverted")

Contains(msg, needle) == \E i \in 1..Len(msg) : WordContains(msg[i], needle)

\* mutant: the hint is added to every failure
MentionsRevert_always(msg) == TRUE

\* merge.rs:405 `msg.contains("revert") || msg.contains("reverted")`
MentionsRevert(msg) == Contains(msg, "revert") \/ Contains(msg, "reverted")

\* merge.rs:403-409 the error a failed safe.nonce() is mapped to
NonceError(msg) == [Err("SafeNonceFailed") EXCEPT !.cause = msg, !.hint = MentionsRevert(msg)]

\* merge.rs:413 the error a failed encodeTransactionData is mapped to
EncodeError(msg) == [Err("EncodeFailed") EXCEPT !.cause = msg]

\* merge.rs:403-409 safe.nonce()
SafeNonce ==
    /\ mpc = "safe_nonce"
    /\ mops' = Append(mops, "nonce")
    /\ \E ok \in BOOLEAN :
         /\ mfailed' = FailedAfter(ok, "nonce")
         /\ IF ok
            THEN /\ mpc' = "safe_encode"
                 /\ UNCHANGED <<mresult, mstages>>
            ELSE /\ mpc' = "done"
                 /\ \E msg \in ReadErrorMessages : mresult' = NonceError(msg)
                 /\ mstages' = Append(mstages, "Failed")
    /\ UNCHANGED <<cvars, pvars, rvars, menv, b_yes, b_no, merge_amount, code_len, path, sig_raw, sig_v, receipt>>

\* merge.rs:411-413 safe.encodeTransactionData(...)
SafeEncode ==
    /\ mpc = "safe_encode"
    /\ mops' = Append(mops, "encodeTransactionData")
    /\ \E ok \in BOOLEAN :
         /\ mfailed' = FailedAfter(ok, "encodeTransactionData")
         /\ IF ok
            THEN /\ mpc' = "safe_sign"
                 /\ UNCHANGED <<mresult, mstages>>
            ELSE /\ mpc' = "done"
                 /\ \E msg \in ReadErrorMessages : mresult' = EncodeError(msg)
                 /\ mstages' = Append(mstages, "Failed")
    /\ UNCHANGED <<cvars, pvars, rvars, menv, b_yes, b_no, merge_amount, code_len, path, sig_raw, sig_v, receipt>>

\* merge.rs:418-420 `if sig_bytes[64] == 0 || sig_bytes[64] == 1 { sig_bytes[64] += 27 }`
SafeNormalizeV(v) == IF v = 0 \/ v = 1 THEN v + 27 ELSE v

\* merge.rs:415-420 keccak, sign_hash, recovery byte
SafeSign ==
    /\ mpc = "safe_sign"
    /\ \E ok \in BOOLEAN, v \in RecoveryBytes :
         IF ok
         THEN /\ sig_raw' = v
              /\ sig_v' = SafeNormalizeV(sig_raw')
              /\ mops' = Append(mops, "sign_hash")
              /\ UNCHANGED mfailed
              /\ mpc' = "safe_exec"
              /\ mstages' = Append(mstages, "Signed")
              /\ UNCHANGED mresult
         ELSE /\ MergeFail("SignFailed")
              /\ mstages' = Append(mstages, "Failed")
              /\ UNCHANGED <<sig_raw, sig_v, mops, mfailed>>
    /\ UNCHANGED <<cvars, pvars, rvars, menv, b_yes, b_no, merge_amount, code_len, path, receipt>>

\* mutant: the hash is returned as soon as the transaction is sent
SafeExec_noReceipt ==
    /\ mpc = "safe_exec"
    /\ mops' = Append(mops, "execTransaction")
    /\ mpc' = "done"
    /\ \E ok \in BOOLEAN :
         /\ mfailed' = FailedAfter(ok, "execTransaction")
         /\ IF ok
            THEN /\ mresult' = Ok("tx_hash_out")
                 /\ mstages' = Append(mstages, "Submitted")
            ELSE /\ mresult' = Err("ExecFailed")
                 /\ mstages' = Append(mstages, "Failed")
    /\ UNCHANGED <<cvars, pvars, rvars, menv, b_yes, b_no, merge_amount, code_len, path, sig_raw, sig_v, receipt>>

\* merge.rs:422-426 safe.execTransaction(...).send()
SafeExec ==
    /\ mpc = "safe_exec"
    /\ mops' = Append(mops, "execTransaction")
    /\ \E ok \in BOOLEAN :
         /\ mfailed' = FailedAfter(ok, "execTransaction")
         /\ IF ok
            THEN /\ mpc' = "safe_receipt"
                 /\ mstages' = Append(mstages, "Submitted")
                 /\ UNCHANGED mresult
            ELSE /\ MergeFail("ExecFailed")
                 /\ mstages' = Append(mstages, "Failed")
    /\ UNCHANGED <<cvars, pvars, rvars, menv, b_yes, b_no, merge_amount, code_len, path, sig_raw, sig_v, receipt>>

\* the status field of a transaction receipt
ReceiptStatuses == {"success", "reverted"}

\* mutant: a failed wait for the receipt is ignored
ReceiptWaitFailed_ignored == Ok("tx_hash_out")

\* merge.rs:427 `pending.get_receipt().await?` failed
ReceiptWaitFailed == Err("ReceiptFailed")

\* mutant: a receipt whose status is not success is an error
ResultOfReceipt_checked(status) == IF status = "success" THEN Ok("tx_hash_out") ELSE Err("Reverted")

\* merge.rs:427-429 the receipt is bound to `_receipt` and Ok(tx_hash) returned
ResultOfReceipt(status) == Ok("tx_hash_out")

\* merge.rs:427-429 pending.get_receipt(); the receipt is bound to _receipt
SafeReceipt ==
    /\ mpc = "safe_receipt"
    /\ mops' = Append(mops, "get_receipt")
    /\ mpc' = "done"
    /\ \/ /\ mresult' = ReceiptWaitFailed
          /\ mstages' = Append(mstages, "Failed")
          /\ mfailed' = FailedAfter(FALSE, "get_receipt")
          /\ UNCHANGED receipt
       \/ /\ receipt' \in ReceiptStatuses
          /\ mresult' = ResultOfReceipt(receipt')
          /\ mstages' = Append(mstages, IF mresult'.kind = "ok" THEN "Confirmed" ELSE "Failed")
          /\ UNCHANGED mfailed
    /\ UNCHANGED <<cvars, pvars, rvars, menv, b_yes, b_no, merge_amount, code_len, path, sig_raw, sig_v>>

NextMerge ==
    \/ MergeSetup
    \/ ReadBalanceYes
    \/ ReadBalanceNo
    \/ ComputeAmount
    \/ GetCodeAndSelect
    \/ GetRelayPayload
    \/ RelayerSign
    \/ PostSubmit
    \/ SafeNonce
    \/ SafeEncode
    \/ SafeSign
    \/ SafeExec
    \/ SafeReceipt

SpecMerge == InitMerge /\ [][NextMerge]_vars

(***************************************************************************)
(* executor.rs:140-481 TradingExecutor::execute_arbitrage_pair             *)
(* Prices and slippages are counted in steps of 1/Ticks, sizes in shares.  *)
(***************************************************************************)
\* directions handed to slippage_for_direction: "down" stands for the arrow
\* of executor.rs:131, "up" and "flat" for the other two arrows of executor.rs:139,
\* "" for the empty string and "other" for any other string
PlanDirs == {"down", "up", "flat", "", "other"}

\* the directions a whole attempt is followed with: one on each side of executor.rs:131
PairDirs == {"down", "up"}

\* polymarket_client_sdk::clob::types::OrderType
OrderTypes == {"GTD", "GTC", "FOK", "FAK"}

\* taking_amount values the venue reports
Fills == {0, 1}

PairEnvs ==
    [ yes_ask_price  : 0..Ticks,
      no_ask_price   : 0..Ticks,
      \* the book can offer more than the executor is configured to take
      yes_size       : 1..(MaxSize + 1),
      no_size        : 1..(MaxSize + 1),
      max_order_size : 1..MaxSize,
      slippage       : (0..MaxSlip) \X (0..MaxSlip),
      yes_dir        : PairDirs,
      no_dir         : PairDirs,
      arbitrage_order_type : OrderTypes,
      \* executor.rs:174 Utc::now(), read once per attempt, and the configured seconds
      now            : {60},
      gtd_expiration_secs : {30} ]

\* no merge attempt is running
MergeIdle ==
    /\ menv = [idle |-> TRUE]
    /\ mpc = "idle"
    /\ b_yes = -1
    /\ b_no = -1
    /\ merge_amount = -1
    /\ code_len = -1
    /\ path = "none"
    /\ sig_raw = -1
    /\ sig_v = -1
    /\ mops = << >>
    /\ mfailed = {}
    /\ nonce = << >>
    /\ signed_nonce = -1
    /\ response = NoResponse
    /\ mstages = << >>
    /\ receipt = "none"
    /\ mresult = NoResult

InitPair ==
    /\ MergeIdle
    /\ CalldataIdle
    /\ penv \in PairEnvs
    /\ ppc = "start"
    /\ order_size = -1
    /\ yes_slippage_apply = -1
    /\ no_slippage_apply = -1
    /\ yes_price_with_slippage = -1
    /\ no_price_with_slippage = -1
    /\ yes_order = [st |-> "pending"]
    /\ no_order = [st |-> "pending"]
    /\ signed_yes = "pending"
    /\ signed_no = "pending"
    /\ orders_to_send = << >>
    /\ results = << >>
    /\ pops = << >>
    /\ presult = [kind |-> "none", err |-> ""]

Min(a, b) == IF a <= b THEN a ELSE b

\* mutant: the configured max order size does not cap the size
OrderSizeOf_noCap(yes_size, no_size, max_order_size) == Min(yes_size, no_size)

\* executor.rs:168 opp.yes_size.min(opp.no_size).min(self.max_order_size)
OrderSizeOf(yes_size, no_size, max_order_size) == Min(Min(yes_size, no_size), max_order_size)

\* mutant: a flat leg takes the second allowance too
slippage_for_direction_flatToo(slippage, dir) ==
    IF dir = "down" \/ dir = "flat" THEN slippage[2] ELSE slippage[1]

\* executor.rs:130-136 slippage_for_direction
slippage_for_direction(slippage, dir) == IF dir = "down" THEN slippage[2] ELSE slippage[1]

\* mutant: the price is not capped
PriceWithSlippage_noCap(ask, slip) == ask + slip

\* executor.rs:179-180 (ask + slippage).min(dec!(1.0))
PriceWithSlippage(ask, slip) == Min(ask + slip, Ticks)

\* mutant: a notional exactly at the floor is let through
NotionalTooSmall_strict(price, size) == price * size < MIN_NOTIONAL * Ticks

\* executor.rs:202-204 one leg's notional is at or below the floor
NotionalTooSmall(price, size) == price * size <= MIN_NOTIONAL * Ticks

\* executor.rs:204 `yes_amount_usd <= dec!(1) || no_amount_usd <= dec!(1)`
GateRejects(yes_price, no_price, size) ==
    NotionalTooSmall(yes_price, size) \/ NotionalTooSmall(no_price, size)

PairErr(e) == [kind |-> "err", err |-> e]

PairFail(e) ==
    /\ ppc' = "done"
    /\ presult' = PairErr(e)

\* executor.rs:146-213 token ids, size, prices, minimum-notional gate
PlanAndGate ==
    /\ ppc = "start"
    /\ \/ \* executor.rs:165-166 `U256::from_str(..)?` rejects a token id
          /\ PairFail("TokenIdInvalid")
          /\ UNCHANGED <<order_size, yes_slippage_apply, no_slippage_apply, yes_price_with_slippage,
                         no_price_with_slippage>>
       \/ /\ order_size' = OrderSizeOf(penv.yes_size, penv.no_size, penv.max_order_size)
          /\ yes_slippage_apply' = slippage_for_direction(penv.slippage, penv.yes_dir)
          /\ no_slippage_apply' = slippage_for_direction(penv.slippage, penv.no_dir)
          /\ yes_price_with_slippage' = PriceWithSlippage(penv.yes_ask_price, yes_slippage_apply')
          /\ no_price_with_slippage' = PriceWithSlippage(penv.no_ask_price, no_slippage_apply')
          /\ IF GateRejects(yes_price_with_slippage', no_price_with_slippage', order_size')
             THEN PairFail("MinimumNotionalViolation")
             ELSE /\ ppc' = "build"
                  /\ UNCHANGED presult
    /\ UNCHANGED <<cvars, mvars, penv, yes_order, no_order, signed_yes, signed_no, orders_to_send, results, pops>>

\* executor.rs:174 Utc::now() + Duration::seconds(gtd_expiration_secs)
ExpirationOf(now, secs) == now + secs

\* mutant: every order type but GTC gets an expiration
IsGTD_notGTC(order_type) == order_type # "GTC"

\* executor.rs:228 matches!(order_type, OrderType::GTD)
IsGTD(order_type) == order_type = "GTD"

\* executor.rs:221-232 / 235-246 the order one branch of the join builds
BuiltOrder(leg, price, size, order_type, expiration) ==
    [ st |-> "built", leg |-> leg, price |-> price, size |-> size, order_type |-> order_type,
      expiration |-> IF IsGTD(order_type) THEN expiration ELSE -1 ]

\* mutant: ties send NO first
YesFirst_strict(yes_price, no_price) == yes_price > no_price

\* executor.rs:275 `yes_price_with_slippage >= no_price_with_slippage`
YesFirst(yes_price, no_price) == yes_price >= no_price

\* executor.rs:276-280 the batch, higher price first
OrdersToSend(yes_first, s_yes, s_no) == IF yes_first THEN <<s_yes, s_no>> ELSE <<s_no, s_yes>>

\* executor.rs:250-251 `yes_order?; no_order?` once both branches of the join are done
AfterBuildJoin(y, n) ==
    IF y.st = "pending" \/ n.st = "pending" THEN UNCHANGED <<ppc, presult>>
    ELSE IF y.st = "failed" THEN PairFail("BuildYesFailed")
    ELSE IF n.st = "failed" THEN PairFail("BuildNoFailed")
    ELSE /\ ppc' = "sign"
         /\ UNCHANGED presult

\* executor.rs:220-233 the YES branch of the build join
BuildYes ==
    /\ ppc = "build"
    /\ yes_order.st = "pending"
    /\ pops' = Append(pops, "build_yes")
    /\ \E ok \in BOOLEAN :
         yes_order' = IF ok
                      THEN BuiltOrder("YES", yes_price_with_slippage, order_size,
                                      penv.arbitrage_order_type,
                                      ExpirationOf(penv.now, penv.gtd_expiration_secs))
                      ELSE [st |-> "failed"]
    /\ AfterBuildJoin(yes_order', no_order)
    /\ UNCHANGED <<cvars, mvars, penv, order_size, yes_slippage_apply, no_slippage_apply,
                   yes_price_with_slippage, no_price_with_slippage, no_order,
                   signed_yes, signed_no, orders_to_send, results>>

\* executor.rs:234-247 the NO branch of the build join
BuildNo ==
    /\ ppc = "build"
    /\ no_order.st = "pending"
    /\ pops' = Append(pops, "build_no")
    /\ \E ok \in BOOLEAN :
         no_order' = IF ok
                     THEN BuiltOrder("NO", no_price_with_slippage, order_size,
                                     penv.arbitrage_order_type,
                                      ExpirationOf(penv.now, penv.gtd_expiration_secs))
                     ELSE [st |-> "failed"]
    /\ AfterBuildJoin(yes_order, no_order')
    /\ UNCHANGED <<cvars, mvars, penv, order_size, yes_slippage_apply, no_slippage_apply,
                   yes_price_with_slippage, no_price_with_slippage, yes_order,
                   signed_yes, signed_no, orders_to_send, results>>

\* mutant: only the YES signature is checked after the join
AfterSignJoin_onlyYes(sy, sn) ==
    IF sy = "pending" \/ sn = "pending" THEN UNCHANGED <<ppc, presult, orders_to_send, pops>>
    ELSE IF sy = "failed" THEN PairFail("SignYesFailed") /\ UNCHANGED <<orders_to_send, pops>>
    ELSE /\ orders_to_send' = OrdersToSend(YesFirst(yes_price_with_slippage, no_price_with_slippage),
                                           yes_order, no_order)
         /\ pops' = Append(pops, "post_orders")
         /\ ppc' = "post"
         /\ UNCHANGED presult

\* executor.rs:267-281 `signed_yes_result?; signed_no_result?`, then the batch is
\* ordered and handed to post_orders.  (The signer of 258 is parsed from the key
\* that TradingExecutor::new, 47-49, already parsed: it does not fail.)
AfterSignJoin(sy, sn) ==
    IF sy = "pending" \/ sn = "pending" THEN UNCHANGED <<ppc, presult, orders_to_send, pops>>
    ELSE IF sy = "failed" THEN PairFail("SignYesFailed") /\ UNCHANGED <<orders_to_send, pops>>
    ELSE IF sn = "failed" THEN PairFail("SignNoFailed") /\ UNCHANGED <<orders_to_send, pops>>
    ELSE /\ orders_to_send' = OrdersToSend(YesFirst(yes_price_with_slippage, no_price_with_slippage),
                                           yes_order, no_order)
         /\ pops' = Append(pops, "post_orders")
         /\ ppc' = "post"
         /\ UNCHANGED presult

\* executor.rs:263 self.client.sign(&signer, yes_order)
SignYes ==
    /\ ppc = "sign"
    /\ signed_yes = "pending"
    /\ signed_yes' \in {"signed", "failed"}
    /\ AfterSignJoin(signed_yes', signed_no)
    /\ UNCHANGED <<cvars, mvars, penv, order_size, yes_slippage_apply, no_slippage_apply,
                   yes_price_with_slippage, no_price_with_slippage, yes_order,
                   no_order, signed_no, results>>

\* executor.rs:264 self.client.sign(&signer, no_order)
SignNo ==
    /\ ppc = "sign"
    /\ signed_no = "pending"
    /\ signed_no' \in {"signed", "failed"}
    /\ AfterSignJoin(signed_yes, signed_no')
    /\ UNCHANGED <<cvars, mvars, penv, order_size, yes_slippage_apply, no_slippage_apply,
                   yes_price_with_slippage, no_price_with_slippage, yes_order,
                   no_order, signed_yes, results>>

\* the id the venue gives the order of a leg
OrderIdOf(leg) == IF leg = "YES" THEN "order_yes" ELSE "order_no"

\* one entry of the batch response: the venue answers the order sent at that position
VenueResult(order, fill, success) ==
    [ order_id |-> OrderIdOf(order.leg), taking_amount |-> fill[order.leg], success |-> success[order.leg] ]

\* mutant: the results are read in the order sent
YesNoResults_noRemap(yes_first, res) == <<res[1], res[2]>>

\* executor.rs:327-331 results mapped back to (YES, NO)
YesNoResults(yes_first, res) == IF yes_first THEN <<res[1], res[2]>> ELSE <<res[2], res[1]>>

\* mutant: one unfilled leg is enough to fail the pair
BothUnfilled_either(yes_filled, no_filled) == yes_filled = 0 \/ no_filled = 0

\* executor.rs:342 `yes_filled == dec!(0) && no_filled == dec!(0)`
BothUnfilled(yes_filled, no_filled) == yes_filled = 0 /\ no_filled = 0

\* mutant: success is what the two legs report
OrderPairResult_legFlags(yes_result, no_result, size) ==
    [ kind |-> "ok", err |-> "",
      yes_order_id |-> yes_result.order_id, no_order_id |-> no_result.order_id,
      yes_filled |-> yes_result.taking_amount, no_filled |-> no_result.taking_amount,
      yes_size |-> size, no_size |-> size, success |-> yes_result.success /\ no_result.success ]

\* executor.rs:471-480 OrderPairResult
OrderPairResult(yes_result, no_result, size) ==
    [ kind |-> "ok", err |-> "",
      yes_order_id |-> yes_result.order_id, no_order_id |-> no_result.order_id,
      yes_filled |-> yes_result.taking_amount, no_filled |-> no_result.taking_amount,
      yes_size |-> size, no_size |-> size, success |-> TRUE ]

\* mutant: a response longer than two results is read as if it had two
Reconcile_atLeastTwo(res, yes_first, size) ==
    IF Len(res) < EXPECTED_RESULTS THEN PairErr("BatchResultShapeMismatch")
    ELSE LET yn == YesNoResults(yes_first, res)
         IN  IF BothUnfilled(yn[1].taking_amount, yn[2].taking_amount)
             THEN PairErr("TotalFillFailure")
             ELSE OrderPairResult(yn[1], yn[2], size)

\* mutant: two unfilled legs fail the pair only when a leg reports no success
Reconcile_bySuccess(res, yes_first, size) ==
    IF Len(res) # EXPECTED_RESULTS THEN PairErr("BatchResultShapeMismatch")
    ELSE LET yn == YesNoResults(yes_first, res)
         IN  IF BothUnfilled(yn[1].taking_amount, yn[2].taking_amount)
                /\ ~(yn[1].success /\ yn[2].success)
             THEN PairErr("TotalFillFailure")
             ELSE OrderPairResult(yn[1], yn[2], size)

\* executor.rs:313-480 what is returned for a batch response
Reconcile(res, yes_first, size) ==
    IF Len(res) # EXPECTED_RESULTS THEN PairErr("BatchResultShapeMismatch")
    ELSE LET yn == YesNoResults(yes_first, res)
         IN  IF BothUnfilled(yn[1].taking_amount, yn[2].taking_amount)
             THEN PairErr("TotalFillFailure")
             ELSE OrderPairResult(yn[1], yn[2], size)

\* a response of the wrong length
ShortOrLongResponses ==
    { [i \in 1..n |-> [order_id |-> "order_other", taking_amount |-> 1, success |-> TRUE]] : n \in {0, 1, 3} }

\* executor.rs:281-480 post_orders returns and the outcome is reconciled
PostOrders ==
    /\ ppc = "post"
    /\ ppc' = "done"
    /\ \/ /\ presult' = PairErr("BatchCallFailed")
          /\ UNCHANGED results
       \/ /\ results' \in ShortOrLongResponses
          /\ presult' = Reconcile(results', YesFirst(yes_price_with_slippage, no_price_with_slippage), order_size)
       \/ \E fill \in [{"YES", "NO"} -> Fills], success \in [{"YES", "NO"} -> BOOLEAN] :
            /\ results' = [i \in 1..2 |-> VenueResult(orders_to_send[i], fill, success)]
            /\ presult' = Reconcile(results', YesFirst(yes_price_with_slippage, no_price_with_slippage), order_size)
    /\ UNCHANGED <<cvars, mvars, penv, order_size, yes_slippage_apply, no_slippage_apply,
                   yes_price_with_slippage, no_price_with_slippage, yes_order,
                   no_order, signed_yes, signed_no, orders_to_send, pops>>

NextPair ==
    \/ PlanAndGate
    \/ BuildYes
    \/ BuildNo
    \/ SignYes
    \/ SignNo
    \/ PostOrders

SpecPair == InitPair /\ [][NextPair]_vars

(***************************************************************************)
(* executor.rs:146-213 alone, for every direction string: the size, the    *)
(* slippage of each leg, the two prices and the minimum-notional gate.     *)
(***************************************************************************)
PlanEnvs ==
    [ yes_ask_price  : 0..Ticks,
      no_ask_price   : 0..Ticks,
      yes_size       : 1..(MaxSize + 1),
      no_size        : 1..(MaxSize + 1),
      max_order_size : 1..MaxSize,
      slippage       : (0..MaxSlip) \X (0..MaxSlip),
      yes_dir        : PlanDirs,
      no_dir         : PlanDirs,
      \* not read before executor.rs:228
      arbitrage_order_type : {"GTC"},
      now            : {60},
      gtd_expiration_secs : {30} ]

InitPlan ==
    /\ MergeIdle
    /\ CalldataIdle
    /\ penv \in PlanEnvs
    /\ ppc = "start"
    /\ order_size = -1
    /\ yes_slippage_apply = -1
    /\ no_slippage_apply = -1
    /\ yes_price_with_slippage = -1
    /\ no_price_with_slippage = -1
    /\ yes_order = [st |-> "pending"]
    /\ no_order = [st |-> "pending"]
    /\ signed_yes = "pending"
    /\ signed_no = "pending"
    /\ orders_to_send = << >>
    /\ results = << >>
    /\ pops = << >>
    /\ presult = [kind |-> "none", err |-> ""]

NextPlan == PlanAndGate

SpecPlan == InitPlan /\ [][NextPlan]_vars

(***************************************************************************)
(* A merge attempt of a forwarding-proxy wallet with its credentials set,  *)
(* for every nonce the relayer can answer with.                            *)
(***************************************************************************)
RelayEnvs ==
    [ yes         : 1..MaxBal,
      no          : 1..MaxBal,
      codeLen     : {0},
      wallet      : {"eoa1"},
      proxy       : {"proxy1"},
      tryAnyway   : {"unset"},
      key         : {"set"},
      secret      : {"notbase64", "base64"},
      passphrase  : {"set"},
      relayNonces : {WideNonces} ]

InitRelay ==
    /\ PairIdle
    /\ CalldataIdle
    /\ menv \in RelayEnvs
    /\ mpc = "setup"
    /\ b_yes = -1
    /\ b_no = -1
    /\ merge_amount = -1
    /\ code_len = -1
    /\ path = "none"
    /\ sig_raw = -1
    /\ sig_v = -1
    /\ mops = << >>
    /\ mfailed = {}
    /\ nonce = << >>
    /\ signed_nonce = -1
    /\ response = NoResponse
    /\ mstages = <<"Start">>
    /\ receipt = "none"
    /\ mresult = NoResult

NextRelay ==
    \/ MergeSetup
    \/ ReadBalanceYes
    \/ ReadBalanceNo
    \/ ComputeAmount
    \/ GetCodeAndSelect
    \/ GetRelayPayload
    \/ RelayerSign
    \/ PostSubmit

SpecRelay == InitRelay /\ [][NextRelay]_vars

(***************************************************************************)
(* merge.rs:113-127 encode_merge_calldata, byte by byte.                   *)
(***************************************************************************)
\* merge.rs:114 the first four bytes of
\* keccak256("mergePositions(address,bytes32,bytes32,uint256[],uint256)"): 0x9e7212ad
Selector == <<158, 114, 18, 173>>

Zeros(n) == [i \in 1..n |-> 0]

\* a 20-byte address and a 32-byte id, each made of one repeated byte
AddressOf(b) == [i \in 1..20 |-> b]

B256Of(b) == [i \in 1..32 |-> b]

\* U256::to_be_bytes::<32>, for any length: the len low bytes of n, most
\* significant first
RECURSIVE BeBytes(_, _)
BeBytes(n, len) == IF len = 0 THEN << >> ELSE Append(BeBytes(n \div 256, len - 1), n % 256)

\* merge.rs:123-125 the partition elements, 32 bytes each, in order
RECURSIVE PartitionBytes(_)
PartitionBytes(partition) ==
    IF partition = << >> THEN << >>
    ELSE BeBytes(partition[1], 32) \o PartitionBytes(Tail(partition))

\* mutant: the offset word points at the amount word
encode_merge_calldata_offset128(r) ==
    Selector \o Zeros(12) \o r.collateral_token \o r.parent_collection_id \o r.condition_id
        \o BeBytes(128, 32) \o BeBytes(r.amount, 32) \o BeBytes(Len(r.partition), 32)
        \o PartitionBytes(r.partition)

\* merge.rs:113-127
encode_merge_calldata(r) ==
    Selector \o Zeros(12) \o r.collateral_token \o r.parent_collection_id \o r.condition_id
        \o BeBytes(160, 32) \o BeBytes(r.amount, 32) \o BeBytes(Len(r.partition), 32)
        \o PartitionBytes(r.partition)

\* index sets and amounts on both sides of a byte boundary
PartitionElements == {1, 2, 300}

AmountSamples == {0, 1, 255, 256, 70000}

\* all partitions of length 0..len
RECURSIVE PartitionsUpTo(_)
PartitionsUpTo(len) ==
    IF len = 0 THEN { << >> }
    ELSE LET shorter == PartitionsUpTo(len - 1)
         IN  shorter \cup { Append(p, e) : p \in shorter, e \in PartitionElements }

MergeRequests ==
    [ given                : {TRUE},
      collateral_token     : {AddressOf(17), AddressOf(34)},
      parent_collection_id : {B256Of(0), B256Of(51)},
      condition_id         : {B256Of(68), B256Of(85)},
      partition            : PartitionsUpTo(MaxPartition),
      amount               : AmountSamples ]

InitCalldata ==
    /\ MergeIdle
    /\ PairIdle
    /\ req \in MergeRequests
    /\ out = << >>

EncodeMergeCalldata ==
    /\ req.given
    /\ out = << >>
    /\ out' = encode_merge_calldata(req)
    /\ UNCHANGED <<mvars, pvars, req>>

NextCalldata == EncodeMergeCalldata

SpecCalldata == InitCalldata /\ [][NextCalldata]_vars

(***************************************************************************)
(* One attempt of either kind: a merge attempt or an order-pair attempt.   *)
(***************************************************************************)
InitAttempt == InitMerge \/ InitPair

NextAttempt ==
    \/ MergeSetup
    \/ ReadBalanceYes
    \/ ReadBalanceNo
    \/ ComputeAmount
    \/ GetCodeAndSelect
    \/ GetRelayPayload
    \/ RelayerSign
    \/ PostSubmit
    \/ SafeNonce
    \/ SafeEncode
    \/ SafeSign
    \/ SafeExec
    \/ SafeReceipt
    \/ PlanAndGate
    \/ BuildYes
    \/ BuildNo
    \/ SignYes
    \/ SignNo
    \/ PostOrders

SpecAttempt == InitAttempt /\ [][NextAttempt]_vars

(***************************************************************************)
(* Properties of a merge attempt (SpecMerge).                              *)
(***************************************************************************)
RelayerOps == {"GET /relay-payload", "POST /submit"}

SafeOps == {"nonce", "encodeTransactionData", "execTransaction", "get_receipt"}

\* C1: the merge amount is the minimum of the two balances read; when it is
\* zero the attempt has ended with the nothing-to-merge error having done
\* nothing but the two balance reads, once each: no bytecode read, no
\* signature, no relayer request, no on-chain call.
C1_MergeAmountIsMin ==
    /\ merge_amount # -1 =>
         /\ merge_amount <= b_yes
         /\ merge_amount <= b_no
         /\ merge_amount \in {b_yes, b_no}
         /\ merge_amount = 0 =>
              /\ mpc = "done"
              /\ mresult = Err("NothingToMerge")
              /\ mops = <<"balanceOf_yes", "balanceOf_no">>
              /\ code_len = -1
              /\ sig_v = -1
    /\ mresult.err = "NothingToMerge" => merge_amount = 0
    /\ "get_code" \in SeqToSet(mops) => merge_amount > 0

\* C1 witness: one balance is positive, the other zero, and the attempt
\* ended with nothing to merge.
C1_Witness ==
    /\ b_yes = 2
    /\ b_no = 0
    /\ merge_amount = 0
    /\ mresult = Err("NothingToMerge")

\* C2: relayer operations and Safe operations never both occur in one
\* attempt, each occurs only on the path selected, and an attempt that
\* has ended in an error has made no operation of the other path.
C2_OnePathPerAttempt ==
    /\ ~(SeqToSet(mops) \cap RelayerOps # {} /\ SeqToSet(mops) \cap SafeOps # {})
    /\ SeqToSet(mops) \cap RelayerOps # {} => path = "relayer"
    /\ SeqToSet(mops) \cap SafeOps # {} => path = "multisig"
    /\ (mresult.kind = "err" /\ path = "relayer") => (mpc = "done" /\ SeqToSet(mops) \cap SafeOps = {})
    /\ (mresult.kind = "err" /\ path = "multisig") => (mpc = "done" /\ SeqToSet(mops) \cap RelayerOps = {})

\* C2 witness: the relayer path was chosen, its first request failed, and
\* the attempt is over.
C2_Witness ==
    /\ path = "relayer"
    /\ mresult = Err("RelayPayloadFailed")
    /\ mpc = "done"

\* C3: the path is the one the bytecode length read decides, below 150 the
\* relayer path and from 150 on the Safe path, and the bytecode is read
\* exactly once before the path is chosen.
C3_PathByCodeLength ==
    /\ path = "relayer" <=> (code_len # -1 /\ code_len < 150)
    /\ path = "multisig" <=> code_len >= 150
    /\ path # "none" => Count(mops, "get_code") = 1
    /\ Count(mops, "get_code") <= 1

\* C3 witness: a bytecode of exactly 150 bytes took the Safe path.
C3_Witness ==
    /\ code_len = 150
    /\ path = "multisig"
    /\ "nonce" \in SeqToSet(mops)

\* the configured proxy is not the address derived from the signer
ProxyMismatch == derive_proxy_wallet(menv.wallet) # menv.proxy

\* MERGE_TRY_ANYWAY holds "1" or "true"
OverrideSet == menv.tryAnyway \in {"1", "true"}

AllCredentials == menv.key = "set" /\ menv.secret # "unset" /\ menv.passphrase = "set"

NothingSignedOrRelayed == SeqToSet(mops) \cap (RelayerOps \cup {"sign_hash"}) = {}

\* C4: on the relayer path the attempt ends with the proxy-mismatch error
\* exactly when the derived address differs from the proxy and the override
\* is not set, and then nothing was requested from the relayer or signed;
\* with the override set a mismatching attempt goes on to the credential
\* check (it fails there, or it contacts the relayer).
C4_ProxyMismatch ==
    path = "relayer" =>
        /\ mresult.err = "ProxyKindMismatch" <=> (ProxyMismatch /\ ~OverrideSet)
        /\ mresult.err = "ProxyKindMismatch" => (mpc = "done" /\ NothingSignedOrRelayed)
        /\ (ProxyMismatch /\ OverrideSet) =>
              IF AllCredentials
              THEN mpc = "relay_payload" \/ "GET /relay-payload" \in SeqToSet(mops)
              ELSE mresult = Err("MissingRelayerCredentials")

\* C4 witness: MERGE_TRY_ANYWAY is set to "0", the addresses differ, and
\* the attempt ended with the mismatch error.
C4_Witness ==
    /\ path = "relayer"
    /\ menv.tryAnyway = "0"
    /\ mresult = Err("ProxyKindMismatch")

\* C5 as stated: on the relayer path an absent credential always gives the
\* missing-credentials error.
C5_Original ==
    (path = "relayer" /\ ~AllCredentials) => mresult = Err("MissingRelayerCredentials")

\* C5 amended: on the relayer path, when the proxy check did not end the
\* attempt, an absent credential gives the missing-credentials error; with
\* a credential absent nothing is requested from the relayer or signed,
\* whichever error ended the attempt; the relayer is contacted only with
\* all three present.
C5_MissingCredentials ==
    /\ (path = "relayer" /\ ~AllCredentials) =>
          /\ mpc = "done"
          /\ NothingSignedOrRelayed
          /\ mresult = IF ProxyMismatch /\ ~OverrideSet
                       THEN Err("ProxyKindMismatch")
                       ELSE Err("MissingRelayerCredentials")
    /\ mresult.err = "MissingRelayerCredentials" => (path = "relayer" /\ ~AllCredentials)
    /\ SeqToSet(mops) \cap RelayerOps # {} => AllCredentials

\* C5 witness: only the passphrase is absent and the attempt ended with
\* the missing-credentials error.
C5_Witness ==
    /\ menv.key = "set"
    /\ menv.secret = "base64"
    /\ menv.passphrase = "unset"
    /\ mresult = Err("MissingRelayerCredentials")

\* the stages of one attempt, in order; Failed can follow any of them
StageOrder == <<"Start", "BalancesRead", "AmountComputed", "PathSelected", "Signed", "Submitted", "Confirmed">>

\* the stages entered, without a closing Failed
StagesBeforeFailure ==
    IF Len(mstages) > 0 /\ mstages[Len(mstages)] = "Failed"
    THEN SubSeq(mstages, 1, Len(mstages) - 1)
    ELSE mstages

\* op a occurs in mops, and before every occurrence of op b
Before(a, b) ==
    /\ a \in SeqToSet(mops)
    /\ \A i \in 1..Len(mops) : mops[i] = b => IndexOf(mops, a) < i

\* C6: the stages entered are an initial part of Start, BalancesRead,
\* AmountComputed, PathSelected, Signed, Submitted, Confirmed, optionally
\* closed by Failed, so none is skipped, repeated or entered out of order;
\* a submission comes after a signature of the same attempt, and the data
\* signed was obtained after the bytecode read that selects the path; a
\* successful return has gone through Submitted and Confirmed, with the
\* submission the last operation but for the receipt.
C6_StageOrder ==
    /\ Len(StagesBeforeFailure) >= 1
    /\ StagesBeforeFailure = SubSeq(StageOrder, 1, Len(StagesBeforeFailure))
    /\ "BalancesRead" \in SeqToSet(mstages) <=> (b_yes # -1 /\ b_no # -1)
    /\ "AmountComputed" \in SeqToSet(mstages) <=> merge_amount # -1
    /\ "PathSelected" \in SeqToSet(mstages) <=> path # "none"
    /\ "Signed" \in SeqToSet(mstages) <=> "sign_hash" \in SeqToSet(mops)
    /\ "Signed" \in SeqToSet(mstages) <=> sig_v # -1
    /\ "Submitted" \in SeqToSet(mstages) => SeqToSet(mops) \cap {"POST /submit", "execTransaction"} # {}
    /\ Count(mops, "sign_hash") <= 1
    /\ "POST /submit" \in SeqToSet(mops) =>
          /\ Before("sign_hash", "POST /submit")
          /\ Before("GET /relay-payload", "sign_hash")
          /\ Before("get_code", "GET /relay-payload")
    /\ "execTransaction" \in SeqToSet(mops) =>
          /\ Before("sign_hash", "execTransaction")
          /\ Before("encodeTransactionData", "sign_hash")
          /\ Before("get_code", "encodeTransactionData")
    /\ mstages[Len(mstages)] \in {"Confirmed", "Failed"} <=> mpc = "done"
    /\ mstages[Len(mstages)] = "Confirmed" <=> mresult.kind = "ok"
    /\ mstages[Len(mstages)] = "Failed" <=> mresult.kind = "err"
    /\ mresult.kind = "ok" =>
          /\ mstages = StageOrder
          /\ path = "relayer" => mops[Len(mops)] = "POST /submit"
          /\ path = "multisig" => /\ mops[Len(mops)] = "get_receipt"
                                  /\ mops[Len(mops) - 1] = "execTransaction"

\* C6 witness: a Safe attempt that went through every stage and returned
\* the transaction hash.
C6_Witness ==
    /\ path = "multisig"
    /\ mresult.kind = "ok"
    /\ mstages = StageOrder

(***************************************************************************)
(* Properties of an order-pair attempt (SpecPair).                         *)
(***************************************************************************)
\* the attempt has computed its size and prices
Planned == order_size # -1

\* a leg's notional, price times size, is at or below 1 (prices are in
\* steps of 1/Ticks)
AtOrBelowFloor(price) == price * order_size <= Ticks

\* C7: when either leg's notional is at or below 1 the attempt has ended
\* with the minimum-notional error and no call to the venue was made:
\* nothing built, signed or sent; venue calls happen only with both
\* notionals above 1.
C7_MinimumNotionalGate ==
    Planned =>
        /\ (AtOrBelowFloor(yes_price_with_slippage) \/ AtOrBelowFloor(no_price_with_slippage)) =>
              /\ ppc = "done"
              /\ presult = PairErr("MinimumNotionalViolation")
              /\ pops = << >>
              /\ yes_order.st = "pending" /\ no_order.st = "pending"
              /\ signed_yes = "pending" /\ signed_no = "pending"
              /\ orders_to_send = << >>
        /\ (pops # << >> \/ ppc # "done") =>
              /\ yes_price_with_slippage * order_size > Ticks
              /\ no_price_with_slippage * order_size > Ticks
        /\ presult.err = "MinimumNotionalViolation" =>
              (AtOrBelowFloor(yes_price_with_slippage) \/ AtOrBelowFloor(no_price_with_slippage))

\* C7 witness: the YES notional is exactly 1, the NO notional is above 1,
\* and the pair was rejected.
C7_Witness ==
    /\ Planned
    /\ yes_price_with_slippage * order_size = Ticks
    /\ no_price_with_slippage * order_size > Ticks
    /\ presult = PairErr("MinimumNotionalViolation")

\* C8: the batch holds exactly the two legs, both signed, YES first when
\* its adjusted price is greater than or equal to that of NO, NO first
\* otherwise, so the first order never has the lower price.
C8_HigherPriceFirst ==
    /\ orders_to_send # << >> =>
          /\ Len(orders_to_send) = 2
          /\ signed_yes = "signed" /\ signed_no = "signed"
          /\ IF yes_price_with_slippage >= no_price_with_slippage
             THEN orders_to_send = <<yes_order, no_order>>
             ELSE orders_to_send = <<no_order, yes_order>>
          /\ {orders_to_send[1].leg, orders_to_send[2].leg} = {"YES", "NO"}
          /\ orders_to_send[1].price >= orders_to_send[2].price
          /\ yes_order.price = yes_price_with_slippage /\ no_order.price = no_price_with_slippage
    /\ "post_orders" \in SeqToSet(pops) <=> orders_to_send # << >>

\* C8 witness: equal adjusted prices, and YES was sent first.
C8_Witness ==
    /\ orders_to_send # << >>
    /\ yes_price_with_slippage = no_price_with_slippage
    /\ orders_to_send[1].leg = "YES"

\* position of a leg in the batch sent
SentAt(leg) == CHOOSE i \in 1..2 : orders_to_send[i].leg = leg

\* C9: the order id and filled amount reported for YES are those of the
\* batch result at the position where the YES order was sent, and the same
\* for NO, whichever leg went first.
C9_ResultsFollowLegs ==
    presult.kind = "ok" =>
        /\ presult.yes_order_id = results[SentAt("YES")].order_id
        /\ presult.yes_filled = results[SentAt("YES")].taking_amount
        /\ presult.no_order_id = results[SentAt("NO")].order_id
        /\ presult.no_filled = results[SentAt("NO")].taking_amount
        /\ presult.yes_order_id = "order_yes"
        /\ presult.no_order_id = "order_no"

\* C9 witness: NO was sent first, the legs filled differently, and a
\* result was returned.
C9_Witness ==
    /\ presult.kind = "ok"
    /\ orders_to_send[1].leg = "NO"
    /\ presult.yes_filled = 1
    /\ presult.no_filled = 0

\* C10: a batch response of two results that both report a filled size of
\* zero ends the attempt with an error, whatever the two success flags.
C10_TotalFillFailure ==
    /\ (Len(results) = 2 /\ results[1].taking_amount = 0 /\ results[2].taking_amount = 0) =>
          presult = PairErr("TotalFillFailure")
    /\ presult.err = "TotalFillFailure" =>
          (Len(results) = 2 /\ results[1].taking_amount = 0 /\ results[2].taking_amount = 0)

\* C10 witness: both legs report success and a filled size of zero, and
\* the pair failed.
C10_Witness ==
    /\ Len(results) = 2
    /\ results[1].success /\ results[2].success
    /\ results[1].taking_amount = 0 /\ results[2].taking_amount = 0
    /\ presult.kind = "err"

\* the batch response has two results and at least one reports a nonzero fill
SomeLegFilled ==
    /\ Len(results) = EXPECTED_RESULTS
    /\ \E i \in 1..EXPECTED_RESULTS : results[i].taking_amount > 0

\* C11: when the venue answered with two results of which one or both report
\* a nonzero filled amount, the attempt ends with an OrderPairResult, not an
\* error; its success field is true and its yes_filled and no_filled are the
\* amounts the venue reported for the YES order and for the NO order, whatever
\* the success flags of the two results are.
C11_PartialFillIsSuccess ==
    SomeLegFilled =>
        /\ ppc = "done"
        /\ presult.kind = "ok"
        /\ presult.success
        /\ presult.yes_filled = results[SentAt("YES")].taking_amount
        /\ presult.no_filled = results[SentAt("NO")].taking_amount

\* C11 witness: only the NO leg filled, neither result reports success, and
\* an OrderPairResult with those fills was returned.
C11_Witness ==
    /\ SomeLegFilled
    /\ results[SentAt("YES")].taking_amount = 0
    /\ results[SentAt("NO")].taking_amount = 1
    /\ ~results[1].success /\ ~results[2].success
    /\ presult.kind = "ok"
    /\ presult.yes_filled = 0
    /\ presult.no_filled = 1

\* C12: an attempt whose batch call was made and that did not get exactly two
\* results back, because the call failed or the response has another length,
\* ends with an error that carries nothing of the response; an
\* OrderPairResult is only ever returned for a response of exactly two results.
C12_BatchFailureFailsPair ==
    /\ presult.kind = "ok" => Len(results) = EXPECTED_RESULTS
    /\ (ppc = "done" /\ "post_orders" \in SeqToSet(pops) /\ Len(results) # EXPECTED_RESULTS) =>
          presult \in {PairErr("BatchCallFailed"), PairErr("BatchResultShapeMismatch")}
    /\ presult.err = "BatchCallFailed" => results = << >>
    /\ presult.err = "BatchResultShapeMismatch" => Len(results) # EXPECTED_RESULTS

\* C12 witness: the venue answered with three results, each reporting a fill,
\* and the pair failed with the shape error.
C12_Witness ==
    /\ Len(results) = 3
    /\ \A i \in 1..3 : results[i].taking_amount > 0
    /\ presult = PairErr("BatchResultShapeMismatch")

BuildFailed == yes_order.st = "failed" \/ no_order.st = "failed"

SignFailed == signed_yes = "failed" \/ signed_no = "failed"

NothingSubmitted ==
    /\ orders_to_send = << >>
    /\ "post_orders" \notin SeqToSet(pops)
    /\ results = << >>

\* C13 as stated: a failed build leaves both legs unsigned and nothing
\* submitted, a failed signing leaves nothing submitted, and no state has one
\* leg signed or submitted while the other leg failed to build or to sign.
C13_Original ==
    /\ BuildFailed => (signed_yes = "pending" /\ signed_no = "pending" /\ NothingSubmitted)
    /\ SignFailed => NothingSubmitted
    /\ ~((signed_yes = "signed" \/ ~NothingSubmitted) /\ (no_order.st = "failed" \/ signed_no = "failed"))
    /\ ~((signed_no = "signed" \/ ~NothingSubmitted) /\ (yes_order.st = "failed" \/ signed_yes = "failed"))

\* C13: the two builds are joined before any signing and the two signings
\* before the submission.  A failed build of either leg leaves both legs
\* unsigned and nothing submitted, and the error is returned only when both
\* builds have completed; a failed signing of either leg leaves nothing
\* submitted, and the error is returned only when both signings have
\* completed, so the other leg may have been signed.  No leg is signed
\* unless both were built, and nothing is submitted unless both were built
\* and both were signed.
C13_JoinedBuildAndSign ==
    /\ BuildFailed => (signed_yes = "pending" /\ signed_no = "pending" /\ NothingSubmitted)
    /\ SignFailed => NothingSubmitted
    /\ (signed_yes # "pending" \/ signed_no # "pending") =>
          (yes_order.st = "built" /\ no_order.st = "built")
    /\ ~NothingSubmitted =>
          /\ yes_order.st = "built" /\ no_order.st = "built"
          /\ signed_yes = "signed" /\ signed_no = "signed"
    /\ presult.err \in {"BuildYesFailed", "BuildNoFailed"} =>
          (BuildFailed /\ yes_order.st # "pending" /\ no_order.st # "pending")
    /\ presult.err \in {"SignYesFailed", "SignNoFailed"} =>
          (SignFailed /\ signed_yes # "pending" /\ signed_no # "pending")
    /\ (ppc = "done" /\ (BuildFailed \/ SignFailed)) => presult.kind = "err"

\* C13 witness: the YES order was signed, the signing of the NO order failed,
\* and the attempt ended with an error without submitting anything.
C13_Witness ==
    /\ signed_yes = "signed"
    /\ signed_no = "failed"
    /\ ppc = "done"
    /\ presult = PairErr("SignNoFailed")
    /\ NothingSubmitted

\* the operations that hand the signature to the relayer or to the Safe
SubmissionOps == {"POST /submit", "execTransaction"}

\* C14: the signature of a merge attempt, on either path, ends in 27 or 28
\* from the moment it is produced, hence whenever it is submitted: a
\* recovery byte of 0 or 1 has become 27 or 28, one of 27 or 28 is unchanged.
C14_RecoveryByteNormalized ==
    /\ (sig_raw = -1) <=> (sig_v = -1)
    /\ sig_raw # -1 =>
          /\ sig_v \in {27, 28}
          /\ sig_raw \in {0, 1} => sig_v = sig_raw + 27
          /\ sig_raw \in {27, 28} => sig_v = sig_raw
    /\ SeqToSet(mops) \cap SubmissionOps # {} => sig_v \in {27, 28}

\* C14 witness: on the multisig path the signer produced a recovery byte of
\* 1 and execTransaction was called with a signature ending in 28.
C14_Witness ==
    /\ path = "multisig"
    /\ sig_raw = 1
    /\ sig_v = 28
    /\ "execTransaction" \in SeqToSet(mops)

(***************************************************************************)
(* Properties of an attempt of either kind (SpecAttempt).                  *)
(***************************************************************************)
\* the external operations of a merge attempt
MergeExternalOps ==
    {"balanceOf_yes", "balanceOf_no", "get_code", "GET /relay-payload", "POST /submit",
     "nonce", "encodeTransactionData", "execTransaction", "get_receipt"}

\* the calls an order-pair attempt makes to the venue client
PairExternalOps == {"build_yes", "build_no", "post_orders"}

\* the reads whose failure is replaced by a default value (merge.rs:360-361, 371)
DefaultedReads == {"balanceOf_yes", "balanceOf_no", "get_code"}

AtMostOnce ==
    /\ \A op \in MergeExternalOps : Count(mops, op) <= 1
    /\ \A op \in PairExternalOps : Count(pops, op) <= 1

Last(s) == s[Len(s)]

Larger(slippage) == IF slippage[1] >= slippage[2] THEN slippage[1] ELSE slippage[2]

Smaller(slippage) == IF slippage[1] <= slippage[2] THEN slippage[1] ELSE slippage[2]

C17_SharedSize ==
    /\ Planned =>
          /\ order_size \in {penv.yes_size, penv.no_size, penv.max_order_size}
          /\ order_size <= penv.yes_size
          /\ order_size <= penv.no_size
          /\ order_size <= penv.max_order_size
    /\ yes_order.st = "built" => yes_order.size = order_size
    /\ no_order.st = "built" => no_order.size = order_size
    /\ \A i \in 1..Len(orders_to_send) : orders_to_send[i].size = order_size
    /\ presult.kind = "ok" =>
          /\ presult.yes_size = order_size
          /\ presult.no_size = order_size

\* C17 witness: both sides offer more than the configured max order size,
\* and a result was returned that reports the max order size for both legs.
C17_Witness ==
    /\ penv.yes_size > penv.max_order_size
    /\ penv.no_size > penv.max_order_size
    /\ yes_order.st = "built" /\ yes_order.size = penv.max_order_size
    /\ no_order.st = "built" /\ no_order.size = penv.max_order_size
    /\ presult.kind = "ok"
    /\ presult.yes_size = penv.max_order_size
    /\ presult.no_size = penv.max_order_size

(***************************************************************************)
(* Further properties of a merge attempt (SpecMerge).                      *)
(***************************************************************************)
\* C18: on the multisig path success is returned only when the receipt of
\* the execTransaction sent has been obtained, the wait for it being the last
\* thing done; when the wait fails the attempt ends with an error although
\* execTransaction was sent successfully.
C18_SuccessOnlyAfterReceipt ==
    /\ (path = "multisig" /\ mresult.kind = "ok") =>
          /\ receipt # "none"
          /\ Before("execTransaction", "get_receipt")
          /\ Last(mops) = "get_receipt"
          /\ "execTransaction" \notin mfailed
    /\ "get_receipt" \in mfailed =>
          /\ mpc = "done"
          /\ mresult.kind = "err"
          /\ receipt = "none"
          /\ "execTransaction" \in SeqToSet(mops) \ mfailed
          /\ "Submitted" \in SeqToSet(mstages)
    /\ (path = "multisig" /\ mpc = "safe_receipt") => mresult.kind = "none"

\* C18 witness: execTransaction was sent, the wait for its receipt failed,
\* and the attempt ended with an error.
C18_Witness ==
    /\ path = "multisig"
    /\ "execTransaction" \in SeqToSet(mops) \ mfailed
    /\ "get_receipt" \in mfailed
    /\ mresult = Err("ReceiptFailed")

\* C19: once a receipt has been obtained the attempt has ended with the
\* transaction hash as success, whatever status the receipt carries: a
\* reverted transaction ends in the same result and stages as an executed one.
C19_ReceiptStatusIgnored ==
    receipt # "none" =>
        /\ path = "multisig"
        /\ mpc = "done"
        /\ mresult = Ok("tx_hash_out")
        /\ Last(mstages) = "Confirmed"
        /\ mfailed \subseteq DefaultedReads

\* C19 witness: the receipt obtained says reverted and the attempt returned
\* success.
C19_Witness ==
    /\ receipt = "reverted"
    /\ mresult.kind = "ok"
    /\ Last(mstages) = "Confirmed"

BalanceReads == {"balanceOf_yes", "balanceOf_no"}

\* C20: a balance read that failed left a balance of zero; an attempt with a
\* failed balance read goes on to the amount, ends there with the
\* nothing-to-merge error, and never reads the bytecode, selects a path,
\* signs or submits.
C20_FailedBalanceReadIsZero ==
    /\ "balanceOf_yes" \in mfailed => b_yes = 0
    /\ "balanceOf_no" \in mfailed => b_no = 0
    /\ mfailed \cap BalanceReads # {} =>
          /\ SeqToSet(mops) \subseteq BalanceReads
          /\ path = "none"
          /\ sig_v = -1
          /\ mpc \in {"balance_no", "amount", "done"}
          /\ mpc = "done" <=> merge_amount # -1
          /\ mpc = "done" => (merge_amount = 0 /\ mresult = Err("NothingToMerge"))
          /\ mpc # "done" => mresult.kind = "none"

\* C20 witness: the chain holds both tokens, the NO read failed, and the
\* attempt ended with the nothing-to-merge error.
C20_Witness ==
    /\ menv.yes > 0
    /\ menv.no > 0
    /\ mfailed = {"balanceOf_no"}
    /\ b_yes = menv.yes
    /\ b_no = 0
    /\ mresult = Err("NothingToMerge")

\* the two reads of the Safe that precede the signature
SafeReads == {"nonce", "encodeTransactionData"}

\* C21 as stated: when the nonce read or the encodeTransactionData read of
\* the Safe fails, the attempt fails with nothing signed or submitted and
\* the error carries the hint that the address may not be a Safe.
C21_Original ==
    mfailed \cap SafeReads # {} =>
        /\ mpc = "done"
        /\ mresult.kind = "err"
        /\ sig_v = -1
        /\ SeqToSet(mops) \cap {"sign_hash", "execTransaction", "get_receipt"} = {}
        /\ mresult.hint

\* C21: when the nonce read or the encodeTransactionData read of the Safe
\* fails, the attempt fails with nothing signed or submitted.  The error
\* carries the hint that the address may not be a Safe exactly when it is the
\* nonce read that failed and the message of its failure mentions a revert;
\* a failed encodeTransactionData never carries it.
C21_HintOnRevertedNonce ==
    /\ mfailed \cap SafeReads # {} =>
          /\ mpc = "done"
          /\ mresult.kind = "err"
          /\ sig_v = -1
          /\ SeqToSet(mops) \cap {"sign_hash", "execTransaction", "get_receipt"} = {}
          /\ Last(mops) \in SafeReads
          /\ mresult.cause \in ReadErrorMessages
    /\ mresult.hint <=>
          /\ "nonce" \in mfailed
          /\ \E i \in 1..Len(mresult.cause) : mresult.cause[i] \in {"revert", "reverted"}
    /\ "encodeTransactionData" \in mfailed => ~mresult.hint

\* C21 witness: encodeTransactionData failed with a revert and the error
\* returned carries no hint.
C21_Witness ==
    /\ "encodeTransactionData" \in mfailed
    /\ mresult.cause = <<"execution", "reverted">>
    /\ mresult.kind = "err"
    /\ ~mresult.hint
    /\ sig_v = -1

(***************************************************************************)
(* Properties of the relayer path (SpecMerge, SpecRelay).                  *)
(***************************************************************************)
\* the first of transactionHash, transaction_hash that holds a string, else the body
FirstHashString(resp) ==
    IF resp.transactionHash = "string" THEN "transactionHash"
    ELSE IF resp.transaction_hash = "string" THEN "transaction_hash"
    ELSE "body"

\* C22: a POST /submit answered with a success status and a JSON body
\* returns the value of transactionHash, else that of transaction_hash, else
\* the raw body; a non-success status and a body that is not JSON return an
\* error; a secret that is not base64 returns an error with no POST sent.
C22_RelayerResponse ==
    /\ response.got =>
          /\ ~response.status_ok => mresult = Err("RelayerStatus")
          /\ (response.status_ok /\ ~response.json) => mresult = Err("RelayerJson")
          /\ (response.status_ok /\ response.json) => mresult = Ok(FirstHashString(response))
    /\ mresult.err = "SecretDecodeFailed" => "POST /submit" \notin SeqToSet(mops)
    /\ (path = "relayer" /\ sig_v # -1 /\ ~SecretDecodes(menv.secret)) =>
          mresult = Err("SecretDecodeFailed")

\* the string is one optional plus sign followed by at least one digit
IsSignedDigits(s) ==
    /\ Len(s) >= 1
    /\ \A i \in 2..Len(s) : IsDigit(s[i])
    /\ IsDigit(s[1]) \/ (s[1] = "+" /\ Len(s) >= 2)

DigitsOf(s) == IF s[1] = "+" THEN SubSeq(s, 2, Len(s)) ELSE s

\* the number a string of digits denotes
RECURSIVE NumeralValue(_)
NumeralValue(d) ==
    IF Len(d) = 0 THEN 0
    ELSE NumeralValue(SubSeq(d, 1, Len(d) - 1)) * 10 + DigitValue(d[Len(d)])

\* a decimal numeral that fits the integer type of the nonce
IsFittingNumeral(s) == IsSignedDigits(s) /\ NumeralValue(DigitsOf(s)) <= MaxNonce

\* the relay payload was obtained and the struct hash computed from it
HashComputed == signed_nonce # -1

\* C27: when the nonce string of the relay payload, which is the string
\* sent in the body of POST /submit, is a decimal numeral (digits, with an
\* optional plus sign) that fits the integer type, the signed hash commits to
\* its numeric value; otherwise the hash commits to 0 while the string sent
\* does not denote 0, so the signed and the submitted nonce differ.
C27_SignedNonce ==
    HashComputed =>
        /\ "GET /relay-payload" \in SeqToSet(mops) \ mfailed
        /\ IsFittingNumeral(nonce) => signed_nonce = NumeralValue(DigitsOf(nonce))
        /\ ~IsFittingNumeral(nonce) =>
              /\ signed_nonce = 0
              /\ ~(IsSignedDigits(nonce) /\ NumeralValue(DigitsOf(nonce)) = 0)

\* C27 witness: the relayer assigned the nonce "1a", the hash signed commits
\* to 0, and the body with "1a" was posted.
C27_Witness ==
    /\ nonce = <<"1", "a">>
    /\ signed_nonce = 0
    /\ sig_v # -1
    /\ "POST /submit" \in SeqToSet(mops)

(***************************************************************************)
(* Properties of the orders built and of the result (SpecPair).            *)
(***************************************************************************)
BothBuilt == yes_order.st = "built" /\ no_order.st = "built"

\* a built order carries the expiration of the attempt when the configured
\* type is GTD and none otherwise, and it carries the configured type
ExpirationAsConfigured(order) ==
    /\ order.order_type = penv.arbitrage_order_type
    /\ order.expiration # -1 <=> penv.arbitrage_order_type = "GTD"
    /\ order.expiration # -1 => order.expiration = penv.now + penv.gtd_expiration_secs

\* C23: an order is built with an expiration exactly when the configured
\* order type is GTD; the expiration is now plus the configured seconds, and
\* both legs of an attempt carry the same expiration and the same order type,
\* in particular none for GTC, FOK and FAK.
C23_ExpirationIffGTD ==
    /\ yes_order.st = "built" => ExpirationAsConfigured(yes_order)
    /\ no_order.st = "built" => ExpirationAsConfigured(no_order)
    /\ BothBuilt =>
          /\ yes_order.expiration = no_order.expiration
          /\ yes_order.order_type = no_order.order_type
    /\ \A i \in 1..Len(orders_to_send) : ExpirationAsConfigured(orders_to_send[i])

\* C23 witness: the configured type is GTD and both orders of the batch
\* sent carry the expiration of the attempt.
C23_Witness ==
    /\ penv.arbitrage_order_type = "GTD"
    /\ Len(orders_to_send) = 2
    /\ orders_to_send[1].expiration = penv.now + penv.gtd_expiration_secs
    /\ orders_to_send[2].expiration = penv.now + penv.gtd_expiration_secs

\* C24: the price of every order built, and of every order in the batch
\* sent, is the smaller of ask plus the slippage selected for the leg and
\* 1.0 (Ticks steps), hence never above 1.0.
C24_PriceCapped ==
    /\ yes_order.st = "built" =>
          /\ yes_order.price = Min(penv.yes_ask_price + yes_slippage_apply, Ticks)
          /\ yes_order.price <= Ticks
    /\ no_order.st = "built" =>
          /\ no_order.price = Min(penv.no_ask_price + no_slippage_apply, Ticks)
          /\ no_order.price <= Ticks
    /\ \A i \in 1..Len(orders_to_send) :
          /\ orders_to_send[i].price <= Ticks
          /\ orders_to_send[i].price =
                IF orders_to_send[i].leg = "YES"
                THEN Min(penv.yes_ask_price + yes_slippage_apply, Ticks)
                ELSE Min(penv.no_ask_price + no_slippage_apply, Ticks)

\* C24 witness: the YES ask plus its slippage exceeds 1.0 and the YES order
\* in the batch sent has the price 1.0.
C24_Witness ==
    /\ penv.yes_ask_price + yes_slippage_apply > Ticks
    /\ Len(orders_to_send) = 2
    /\ orders_to_send[SentAt("YES")].price = Ticks

\* C26: every OrderPairResult returned has success true, equal yes_size and
\* no_size, and at least one nonzero filled amount: a partial and a full fill
\* carry the same success flag.
C26_ResultInvariants ==
    presult.kind = "ok" =>
        /\ presult.success = TRUE
        /\ presult.yes_size = presult.no_size
        /\ ~(presult.yes_filled = 0 /\ presult.no_filled = 0)

\* C26 witness: only the YES leg filled, the NO result reports no success,
\* and the result returned has success true.
C26_Witness ==
    /\ presult.kind = "ok"
    /\ presult.success
    /\ presult.yes_filled > 0
    /\ presult.no_filled = 0
    /\ ~results[SentAt("NO")].success
    /\ presult.yes_size = presult.no_size

(***************************************************************************)
(* Properties of the bytecode read (SpecMerge).                            *)
(***************************************************************************)
\* C28: a failed bytecode read is not returned as an error: it leaves an
\* empty bytecode, the relayer path is selected whatever the wallet's real
\* bytecode is, no operation of the multisig path is ever made, and an error
\* the attempt then ends with is one of the relayer path.
C28_FailedCodeReadTakesRelayer ==
    "get_code" \in mfailed =>
        /\ code_len = 0
        /\ path = "relayer"
        /\ SeqToSet(mops) \cap SafeOps = {}
        /\ mpc \notin {"safe_nonce", "safe_encode", "safe_sign", "safe_exec", "safe_receipt"}
        /\ mresult.kind = "err" =>
              mresult.err \in {"ProxyKindMismatch", "MissingRelayerCredentials", "RelayPayloadFailed",
                               "SignFailed", "SecretDecodeFailed", "SubmitFailed", "RelayerStatus",
                               "RelayerJson"}

\* C28 witness: the wallet is a deployed Safe, the bytecode read failed, and
\* the merge was posted to the relayer.
C28_Witness ==
    /\ menv.codeLen >= CODE_LEN_MULTISIG
    /\ "get_code" \in mfailed
    /\ path = "relayer"
    /\ "POST /submit" \in SeqToSet(mops)

(***************************************************************************)
(* Properties of encode_merge_calldata (SpecCalldata).                     *)
(***************************************************************************)
\* the number a big-endian sequence of bytes denotes
RECURSIVE WordValue(_)
WordValue(w) == IF w = << >> THEN 0 ELSE WordValue(SubSeq(w, 1, Len(w) - 1)) * 256 + w[Len(w)]

\* the k-th 32-byte word after the selector, k from 1
ArgWord(k) == SubSeq(out, 4 + 32 * (k - 1) + 1, 4 + 32 * k)

\* C25: for a partition of n elements the calldata has 4 + 32*(6+n) bytes:
\* the selector, the collateral address left-padded with zeros to 32 bytes,
\* the parent collection id, the condition id, an offset word of 160, the
\* amount, the partition length n, and the n elements; the offset word is
\* the distance in bytes from the first argument to the length word.
C25_CalldataLayout ==
    out # << >> =>
        LET n == Len(req.partition)
        IN  /\ Len(out) = 4 + 32 * (6 + n)
            /\ SubSeq(out, 1, 4) = <<158, 114, 18, 173>>
            /\ SubSeq(ArgWord(1), 1, 12) = [i \in 1..12 |-> 0]
            /\ SubSeq(ArgWord(1), 13, 32) = req.collateral_token
            /\ ArgWord(2) = req.parent_collection_id
            /\ ArgWord(3) = req.condition_id
            /\ WordValue(ArgWord(4)) = 160
            /\ WordValue(ArgWord(5)) = req.amount
            /\ WordValue(ArgWord(6)) = n
            /\ \A k \in 1..n : WordValue(ArgWord(6 + k)) = req.partition[k]
            /\ WordValue(ArgWord(4)) = 32 * (6 - 1)
            /\ \A i \in 1..Len(out) : out[i] \in 0..255

\* C25 witness: a partition of two elements and an amount of more than one
\* byte were encoded into 260 bytes.
C25_Witness ==
    /\ req.given
    /\ req.partition = <<1, 2>>
    /\ req.amount = 256
    /\ Len(out) = 260
    /\ WordValue(ArgWord(5)) = 256
    /\ WordValue(ArgWord(8)) = 2

====
